---- MODULE Spec2Model ----
(***************************************************************************)
(* Model of the amass command-line front end (main.go): the output         *)
(* aggregator manageOutput, the interrupt watcher catchSignals, the main   *)
(* flow around amass.StartAmass, and the channels that connect them.       *)
(***************************************************************************)
EXTENDS Integers, Sequences, FiniteSets, TLC

\* ------------------------------------------------------------------------
\* Bounds of the model
\* ------------------------------------------------------------------------

\* Number of events the engine places on the results channel in one run.
MaxEvents == 3

\* Range of the -freq flag that is explored: from NegFreqs below zero up to
\* MaxFreq.
NegFreqs == 2
MaxFreq == 61000
MinFreq == 0 - NegFreqs

\* How far below a frequency the delays are compared with its own.
MonoWindow == 60

\* ------------------------------------------------------------------------
\* Program constants
\* ------------------------------------------------------------------------

\* results := make(chan *amass.AmassRequest, 100)
ResultsCap == 100

\* sigs := make(chan os.Signal, 2)
SigsCap == 2

\* fmt.Sprintf("%-14s", ...)
SourceWidth == 14

\* ------------------------------------------------------------------------
\* Discovery events (amass.AmassRequest), the fields main.go reads
\* ------------------------------------------------------------------------

Requests ==
    { [Name |-> "a", Address |-> "1", Source |-> "A", Tag |-> "A",
       ASN |-> 100, ISP |-> "X", Netblock |-> "n1"],
      [Name |-> "b", Address |-> "2", Source |-> "A", Tag |-> "B",
       ASN |-> 100, ISP |-> "Y", Netblock |-> "n2"],
      [Name |-> "c", Address |-> "", Source |-> "B", Tag |-> "B",
       ASN |-> 200, ISP |-> "Z", Netblock |-> "n1"] }

\* The outputParams main can build from its flags: -vv (Sources) forces
\* -v (Verbose); FileOut is "" when -o is absent.
OutputParams ==
    { p \in [Verbose : BOOLEAN, Sources : BOOLEAN, PrintIPs : BOOLEAN,
             FileOut : {"", "out.txt"}] : p.Sources => p.Verbose }

VARIABLES
    params,      \* the outputParams handed to manageOutput
    results,     \* buffer of the results channel
    sigs,        \* number of signals buffered in catchSignals' sigs channel
    mainPc,      \* position of main
    csPc,        \* position of catchSignals
    moPc,        \* position of manageOutput
    total,       \* manageOutput: total
    tags,        \* manageOutput: tags map
    asns,        \* manageOutput: asns map
    allLines,    \* manageOutput: allLines
    stdout,      \* lines written by fmt.Print(line)
    summaries,   \* number of printSummary calls
    file,        \* content of the output file (a previous run left one)
    fileWrites,  \* number of ioutil.WriteFile calls
    doneClosed,  \* the done channel is closed
    doneCloses,  \* number of close(params.Done) calls
    finishRecvs, \* number of receives on the finish channel
    terminated,  \* "no", or how the process ended: "main" / "exit"
    processed,   \* history: the events manageOutput has received, in order
    sigK,        \* history (kept in NotedSpec): <<k>> once the first signal
                 \* arrived with k events enqueued, <<>> before
    freq,        \* main: the -freq flag
    delay,       \* AmassConfig.Frequency: <<>> until main has computed it
    summaryOut,  \* what printSummary printed, one element per Print call
    writeFailed, \* ioutil.WriteFile returned an error
    diag         \* error reports made to the operator since the run began

vars == <<params, results, sigs, mainPc, csPc, moPc, total, tags, asns,
          allLines, stdout, summaries, file, fileWrites, doneClosed,
          doneCloses, finishRecvs, terminated, processed, sigK, freq, delay,
          summaryOut, writeFailed, diag>>

\* Aggregate state owned by manageOutput.
aggregate == <<total, tags, asns, allLines>>

\* Number of events placed on the results channel so far.
enqueued == Len(processed) + Len(results)

\* ------------------------------------------------------------------------
\* Pure helpers
\* ------------------------------------------------------------------------

\* Go map read with the zero value for a missing key.
MapGet(m, k) == IF k \in DOMAIN m THEN m[k] ELSE 0

\* m[k]++
MapInc(m, k) == [x \in DOMAIN m \cup {k} |-> IF x = k THEN MapGet(m, k) + 1 ELSE m[x]]

\* Left-justify s in a field of n characters ("%-14s").
RECURSIVE PadRight(_, _)
PadRight(s, n) == IF Len(s) >= n THEN s ELSE PadRight(s \o " ", n)

\* updateData, with the per-tag increment left out.
updateData_noTally(req, t, a) ==
    [tags |-> t,
     asns |-> IF req.ASN \in DOMAIN a
              THEN [a EXCEPT ![req.ASN].Netblocks = MapInc(@, req.Netblock)]
              ELSE [x \in DOMAIN a \cup {req.ASN} |->
                      IF x = req.ASN
                      THEN [Name |-> req.ISP, Netblocks |-> MapInc(<<>>, req.Netblock)]
                      ELSE a[x]]]

\* updateData, counting under the request's Source instead of its Tag.
updateData_bySource(req, t, a) ==
    [tags |-> MapInc(t, req.Source),
     asns |-> IF req.ASN \in DOMAIN a
              THEN [a EXCEPT ![req.ASN].Netblocks = MapInc(@, req.Netblock)]
              ELSE [x \in DOMAIN a \cup {req.ASN} |->
                      IF x = req.ASN
                      THEN [Name |-> req.ISP, Netblocks |-> MapInc(<<>>, req.Netblock)]
                      ELSE a[x]]]

\* updateData, storing the ISP name of every request (last one wins).
updateData_lastIsp(req, t, a) ==
    [tags |-> MapInc(t, req.Tag),
     asns |-> IF req.ASN \in DOMAIN a
              THEN [a EXCEPT ![req.ASN] =
                      [Name |-> req.ISP, Netblocks |-> MapInc(@.Netblocks, req.Netblock)]]
              ELSE [x \in DOMAIN a \cup {req.ASN} |->
                      IF x = req.ASN
                      THEN [Name |-> req.ISP, Netblocks |-> MapInc(<<>>, req.Netblock)]
                      ELSE a[x]]]

\* updateData, building a new asnData for every request (no "found" test).
updateData_freshEntry(req, t, a) ==
    [tags |-> MapInc(t, req.Tag),
     asns |-> [x \in DOMAIN a \cup {req.ASN} |->
                 IF x = req.ASN
                 THEN [Name |-> req.ISP, Netblocks |-> MapInc(<<>>, req.Netblock)]
                 ELSE a[x]]]

\* updateData, returning after it has inserted a new ASN, before the
\* netblock increment.
updateData_firstNotCounted(req, t, a) ==
    [tags |-> MapInc(t, req.Tag),
     asns |-> IF req.ASN \in DOMAIN a
              THEN [a EXCEPT ![req.ASN].Netblocks = MapInc(@, req.Netblock)]
              ELSE [x \in DOMAIN a \cup {req.ASN} |->
                      IF x = req.ASN
                      THEN [Name |-> req.ISP, Netblocks |-> <<>>]
                      ELSE a[x]]]

\* updateData(req, tags, asns): the two maps after the call.
updateData(req, t, a) ==
    [tags |-> MapInc(t, req.Tag),
     asns |-> IF req.ASN \in DOMAIN a
              THEN [a EXCEPT ![req.ASN].Netblocks = MapInc(@, req.Netblock)]
              ELSE [x \in DOMAIN a \cup {req.ASN} |->
                      IF x = req.ASN
                      THEN [Name |-> req.ISP, Netblocks |-> MapInc(<<>>, req.Netblock)]
                      ELSE a[x]]]

\* The display line manageOutput builds for one result.
FormatLine(p, result) ==
    (IF p.Sources THEN PadRight("[" \o result.Source \o "] ", SourceWidth) ELSE "")
    \o (IF p.PrintIPs THEN result.Name \o "," \o result.Address ELSE result.Name)
    \o "\n"

\* The orders in which a range loop can visit the keys in set S.
Orders(S) ==
    {o \in [1..Cardinality(S) -> S] : \A i, j \in DOMAIN o : o[i] = o[j] => i = j}

\* For each ASN of registry reg, an order over its netblocks.
CidrOrders(reg) ==
    {co \in [DOMAIN reg -> UNION {Orders(DOMAIN reg[a].Netblocks) : a \in DOMAIN reg}] :
        \A a \in DOMAIN reg : co[a] \in Orders(DOMAIN reg[a].Netblocks)}

\* The tag loop of printSummary: one element per Printf / Print call. num
\* is set to 1 before the loop and never changed.
RECURSIVE SummaryTags(_, _, _, _)
SummaryTags(t, order, num, length) ==
    IF order = <<>> THEN <<>>
    ELSE <<Head(order) \o ": " \o ToString(t[Head(order)])>>
         \o (IF num < length THEN <<", ">> ELSE <<>>)
         \o SummaryTags(t, Tail(order), num, length)

\* The netblock loop of printSummary for one ASN.
RECURSIVE SummaryCidrs(_, _)
SummaryCidrs(nb, order) ==
    IF order = <<>> THEN <<>>
    ELSE LET cidr == Head(order)
             ips  == nb[cidr]
         IN  <<"\t" \o PadRight(cidr, 18) \o "\t" \o PadRight(ToString(ips), 3) \o " ",
               IF ips = 1 THEN "IP address\n" ELSE "IP addresses\n">>
             \o SummaryCidrs(nb, Tail(order))

\* The ASN loop of printSummary.
RECURSIVE SummaryAsns(_, _, _)
SummaryAsns(a, order, cidrOrder) ==
    IF order = <<>> THEN <<>>
    ELSE LET asn == Head(order)
         IN  <<"ASN: " \o ToString(asn) \o " - " \o a[asn].Name \o "\n">>
             \o SummaryCidrs(a[asn].Netblocks, cidrOrder[asn])
             \o SummaryAsns(a, Tail(order), cidrOrder)

\* printSummary(total, tags, asns), with the orders its range loops take:
\* what it prints, one element per Printf / Print / Println call.
printSummary(tot, t, a, tagOrder, asnOrder, cidrOrder) ==
    <<"\n" \o ToString(tot) \o " names discovered - ">>
    \o SummaryTags(t, tagOrder, 1, Cardinality(DOMAIN t))
    \o <<"\n">>
    \o [i \in 1..8 |-> "----------"]
    \o <<"\n">>
    \o SummaryAsns(a, asnOrder, cidrOrder)

\* time.Millisecond and time.Second, counted in milliseconds.
Millisecond == 1
Second == 1000 * Millisecond

\* amass.DefaultConfig().Frequency: the engine's own delay, not a value
\* computed here.
DefaultFrequency == <<"default">>

\* A delay of n milliseconds.
Duration(n) == <<"ms", n>>

\* freqToDuration without its "d = d / 60".
freqToDuration_perMinute(f) ==
    IF f > 0
    THEN IF f < 60
         THEN Duration((60 \div f) * Second)
         ELSE LET d == f
                  m == 1000 \div d
              IN  IF d < 1000 /\ m > 1
                  THEN Duration(m * Millisecond)
                  ELSE DefaultFrequency
    ELSE DefaultFrequency

\* freqToDuration with "m > 0" for "m > 1".
freqToDuration_anyM(f) ==
    IF f > 0
    THEN IF f < 60
         THEN Duration((60 \div f) * Second)
         ELSE LET d == f \div 60
                  m == 1000 \div d
              IN  IF d < 1000 /\ m > 0
                  THEN Duration(m * Millisecond)
                  ELSE DefaultFrequency
    ELSE DefaultFrequency

\* freqToDuration with "d * time.Second" for "(60 / d) * time.Second".
freqToDuration_timesSecond(f) ==
    IF f > 0
    THEN IF f < 60
         THEN Duration(f * Second)
         ELSE LET d == f \div 60
                  m == 1000 \div d
              IN  IF d < 1000 /\ m > 1
                  THEN Duration(m * Millisecond)
                  ELSE DefaultFrequency
    ELSE DefaultFrequency

\* freqToDuration(freq)
freqToDuration(f) ==
    IF f > 0
    THEN IF f < 60
         THEN Duration((60 \div f) * Second)
         ELSE LET d == f \div 60
                  m == 1000 \div d
              IN  IF d < 1000 /\ m > 1
                  THEN Duration(m * Millisecond)
                  ELSE DefaultFrequency
    ELSE DefaultFrequency

\* ------------------------------------------------------------------------
\* Initial state: main has made the channels, started manageOutput and
\* catchSignals, and is entering amass.StartAmass.
\* ------------------------------------------------------------------------

Init ==
    /\ params \in OutputParams
    /\ results = <<>>
    /\ sigs = 0
    /\ mainPc = "StartAmass"
    /\ csPc = "waitSig"
    /\ moPc = "loop"
    /\ total = 0
    /\ tags = <<>>
    /\ asns = <<>>
    /\ allLines = ""
    /\ stdout = ""
    /\ summaries = 0
    /\ file = "old\n"
    /\ fileWrites = 0
    /\ doneClosed = FALSE
    /\ doneCloses = 0
    /\ finishRecvs = 0
    /\ terminated = "no"
    /\ processed = <<>>
    /\ sigK = <<>>
    /\ freq = 0
    /\ delay = <<freqToDuration(freq)>>
    /\ summaryOut = <<>>
    /\ writeFailed = FALSE
    /\ diag = <<>>

\* Every goroutine stops when the process ends.
Alive == terminated = "no"

\* ------------------------------------------------------------------------
\* The engine (amass.StartAmass, running inside main's call)
\* ------------------------------------------------------------------------

\* The engine sends one event on config.Output.
EngineSend(e) ==
    /\ Alive
    /\ mainPc = "StartAmass"
    /\ enqueued < MaxEvents
    /\ Len(results) < ResultsCap
    /\ results' = Append(results, e)
    /\ UNCHANGED <<params, sigs, mainPc, csPc, moPc, total, tags, asns,
                   allLines, stdout, summaries, file, fileWrites, doneClosed,
                   doneCloses, finishRecvs, terminated, processed, sigK>>
    /\ UNCHANGED <<freq, delay, summaryOut, writeFailed, diag>>

\* amass.StartAmass returns; main reaches "finish <- struct{}{}".
EngineReturn ==
    /\ Alive
    /\ mainPc = "StartAmass"
    /\ mainPc' = "sendFinish"
    /\ UNCHANGED <<params, results, sigs, csPc, moPc, total, tags, asns,
                   allLines, stdout, summaries, file, fileWrites, doneClosed,
                   doneCloses, finishRecvs, terminated, processed, sigK>>
    /\ UNCHANGED <<freq, delay, summaryOut, writeFailed, diag>>

\* ------------------------------------------------------------------------
\* main
\* ------------------------------------------------------------------------

\* main, returning without waiting for done.
MainWaitDone_noWait ==
    /\ Alive
    /\ mainPc = "waitDone"
    /\ mainPc' = "returned"
    /\ terminated' = "main"
    /\ UNCHANGED <<params, results, sigs, csPc, moPc, total, tags, asns,
                   allLines, stdout, summaries, file, fileWrites, doneClosed,
                   doneCloses, finishRecvs, processed, sigK>>
    /\ UNCHANGED <<freq, delay, summaryOut, writeFailed, diag>>

\* "<-done" in main, then main returns and the process ends.
MainWaitDone ==
    /\ Alive
    /\ mainPc = "waitDone"
    /\ doneClosed
    /\ mainPc' = "returned"
    /\ terminated' = "main"
    /\ UNCHANGED <<params, results, sigs, csPc, moPc, total, tags, asns,
                   allLines, stdout, summaries, file, fileWrites, doneClosed,
                   doneCloses, finishRecvs, processed, sigK>>
    /\ UNCHANGED <<freq, delay, summaryOut, writeFailed, diag>>

\* ------------------------------------------------------------------------
\* catchSignals
\* ------------------------------------------------------------------------

\* The OS delivers SIGINT or SIGTERM; signal.Notify buffers it in sigs (a
\* signal that finds the buffer full is dropped).
SigArrive ==
    /\ Alive
    /\ sigs < SigsCap
    /\ sigs' = sigs + 1
    /\ UNCHANGED <<params, results, mainPc, csPc, moPc, total, tags, asns,
                   allLines, stdout, summaries, file, fileWrites, doneClosed,
                   doneCloses, finishRecvs, terminated, processed, sigK>>
    /\ UNCHANGED <<freq, delay, summaryOut, writeFailed, diag>>

\* SigArrive, with the history variable sigK noting how many events were
\* enqueued when the first signal arrived.
SigArriveNoted ==
    /\ Alive
    /\ sigs < SigsCap
    /\ sigs' = sigs + 1
    /\ sigK' = IF sigK = <<>> THEN <<enqueued>> ELSE sigK
    /\ UNCHANGED <<params, results, mainPc, csPc, moPc, total, tags, asns,
                   allLines, stdout, summaries, file, fileWrites, doneClosed,
                   doneCloses, finishRecvs, terminated, processed>>
    /\ UNCHANGED <<freq, delay, summaryOut, writeFailed, diag>>

\* "<-sigs"; catchSignals reaches "output <- struct{}{}".
CatchSignal ==
    /\ Alive
    /\ csPc = "waitSig"
    /\ sigs > 0
    /\ sigs' = sigs - 1
    /\ csPc' = "sendFinish"
    /\ UNCHANGED <<params, results, mainPc, moPc, total, tags, asns,
                   allLines, stdout, summaries, file, fileWrites, doneClosed,
                   doneCloses, finishRecvs, terminated, processed, sigK>>
    /\ UNCHANGED <<freq, delay, summaryOut, writeFailed, diag>>

\* "<-done" in catchSignals, then os.Exit(0).
CatchWaitDone ==
    /\ Alive
    /\ csPc = "waitDone"
    /\ doneClosed
    /\ csPc' = "exited"
    /\ terminated' = "exit"
    /\ UNCHANGED <<params, results, sigs, mainPc, moPc, total, tags, asns,
                   allLines, stdout, summaries, file, fileWrites, doneClosed,
                   doneCloses, finishRecvs, processed, sigK>>
    /\ UNCHANGED <<freq, delay, summaryOut, writeFailed, diag>>

\* ------------------------------------------------------------------------
\* manageOutput
\* ------------------------------------------------------------------------

\* The result case, taken wherever manageOutput is (also after the loop).
RecvResult_anyTime ==
    /\ Alive
    /\ results # <<>>
    /\ LET result == Head(results)
           upd    == updateData(result, tags, asns)
           line   == FormatLine(params, result)
       IN  /\ results' = Tail(results)
           /\ total' = total + 1
           /\ tags' = upd.tags
           /\ asns' = upd.asns
           /\ allLines' = allLines \o line
           /\ stdout' = stdout \o line
           /\ processed' = Append(processed, result)
    /\ UNCHANGED <<params, sigs, mainPc, csPc, moPc, summaries, file,
                   fileWrites, doneClosed, doneCloses, finishRecvs,
                   terminated, sigK>>
    /\ UNCHANGED <<freq, delay, summaryOut, writeFailed, diag>>

\* The result case without its fmt.Print(line).
RecvResult_noPrint ==
    /\ Alive
    /\ moPc = "loop"
    /\ results # <<>>
    /\ LET result == Head(results)
           upd    == updateData(result, tags, asns)
           line   == FormatLine(params, result)
       IN  /\ results' = Tail(results)
           /\ total' = total + 1
           /\ tags' = upd.tags
           /\ asns' = upd.asns
           /\ allLines' = allLines \o line
           /\ processed' = Append(processed, result)
    /\ UNCHANGED <<params, sigs, mainPc, csPc, moPc, summaries, file,
                   fileWrites, doneClosed, doneCloses, finishRecvs,
                   terminated, sigK, stdout>>
    /\ UNCHANGED <<freq, delay, summaryOut, writeFailed, diag>>

\* select case "result := <-params.Results": the whole case body.
RecvResult ==
    /\ Alive
    /\ moPc = "loop"
    /\ results # <<>>
    /\ LET result == Head(results)
           upd    == updateData(result, tags, asns)
           line   == FormatLine(params, result)
       IN  /\ results' = Tail(results)
           /\ total' = total + 1
           /\ tags' = upd.tags
           /\ asns' = upd.asns
           /\ allLines' = allLines \o line
           /\ stdout' = stdout \o line
           /\ processed' = Append(processed, result)
    /\ UNCHANGED <<params, sigs, mainPc, csPc, moPc, summaries, file,
                   fileWrites, doneClosed, doneCloses, finishRecvs,
                   terminated, sigK>>
    /\ UNCHANGED <<freq, delay, summaryOut, writeFailed, diag>>

\* manageOutput going from the loop straight to close(params.Done).
RecvFinishMain_skipFlush ==
    /\ Alive
    /\ moPc = "loop"
    /\ mainPc = "sendFinish"
    /\ mainPc' = "waitDone"
    /\ moPc' = "close"
    /\ finishRecvs' = finishRecvs + 1
    /\ UNCHANGED <<params, results, sigs, csPc, total, tags, asns, allLines,
                   stdout, summaries, file, fileWrites, doneClosed,
                   doneCloses, terminated, processed, sigK>>
    /\ UNCHANGED <<freq, delay, summaryOut, writeFailed, diag>>

\* select case "<-params.Finish", meeting main's send: break loop.
RecvFinishMain ==
    /\ Alive
    /\ moPc = "loop"
    /\ mainPc = "sendFinish"
    /\ mainPc' = "waitDone"
    /\ moPc' = "summary"
    /\ finishRecvs' = finishRecvs + 1
    /\ UNCHANGED <<params, results, sigs, csPc, total, tags, asns, allLines,
                   stdout, summaries, file, fileWrites, doneClosed,
                   doneCloses, terminated, processed, sigK>>
    /\ UNCHANGED <<freq, delay, summaryOut, writeFailed, diag>>

\* select case "<-params.Finish", meeting catchSignals' send: break loop.
RecvFinishSignal ==
    /\ Alive
    /\ moPc = "loop"
    /\ csPc = "sendFinish"
    /\ csPc' = "waitDone"
    /\ moPc' = "summary"
    /\ finishRecvs' = finishRecvs + 1
    /\ UNCHANGED <<params, results, sigs, mainPc, total, tags, asns, allLines,
                   stdout, summaries, file, fileWrites, doneClosed,
                   doneCloses, terminated, processed, sigK>>
    /\ UNCHANGED <<freq, delay, summaryOut, writeFailed, diag>>

\* "if params.Verbose { printSummary(total, tags, asns) }"; Go ranges over
\* a map in an order of its own choosing.
Summary ==
    /\ Alive
    /\ moPc = "summary"
    /\ IF params.Verbose
       THEN /\ summaries' = summaries + 1
            /\ \E tagOrder \in Orders(DOMAIN tags) :
               \E asnOrder \in Orders(DOMAIN asns) :
               \E cidrOrder \in CidrOrders(asns) :
                    summaryOut' = summaryOut \o
                        printSummary(total, tags, asns, tagOrder, asnOrder, cidrOrder)
       ELSE UNCHANGED <<summaries, summaryOut>>
    /\ moPc' = "write"
    /\ UNCHANGED <<params, results, sigs, mainPc, csPc, total, tags, asns,
                   allLines, stdout, file, fileWrites, doneClosed, doneCloses,
                   finishRecvs, terminated, processed, sigK, freq, delay,
                   writeFailed, diag>>

\* What ioutil.WriteFile can do to the file: write it whole; fail to open
\* it (content untouched); or fail after truncating it.
WriteOutcomes == {"written", "openFailed", "truncated"}

\* "if params.FileOut != "" { ioutil.WriteFile(...) }": the error that
\* WriteFile returns is discarded.
WriteFile ==
    /\ Alive
    /\ moPc = "write"
    /\ IF params.FileOut # ""
       THEN \E outcome \in WriteOutcomes :
                /\ file' = CASE outcome = "written"    -> allLines
                              [] outcome = "openFailed" -> file
                              [] outcome = "truncated"  -> ""
                /\ writeFailed' = (outcome # "written")
                /\ fileWrites' = fileWrites + 1
       ELSE UNCHANGED <<file, fileWrites, writeFailed>>
    /\ moPc' = "close"
    /\ UNCHANGED <<params, results, sigs, mainPc, csPc, total, tags, asns,
                   allLines, stdout, summaries, doneClosed, doneCloses,
                   finishRecvs, terminated, processed, sigK, freq, delay,
                   summaryOut, diag>>

\* manageOutput returning without closing done.
CloseDone_noClose ==
    /\ Alive
    /\ moPc = "close"
    /\ moPc' = "returned"
    /\ UNCHANGED <<params, results, sigs, mainPc, csPc, total, tags, asns,
                   allLines, stdout, summaries, file, fileWrites, doneClosed,
                   doneCloses, finishRecvs, terminated, processed, sigK>>
    /\ UNCHANGED <<freq, delay, summaryOut, writeFailed, diag>>

\* manageOutput going back to its select loop after closing done.
CloseDone_loopAgain ==
    /\ Alive
    /\ moPc = "close"
    /\ doneClosed' = TRUE
    /\ doneCloses' = doneCloses + 1
    /\ moPc' = "loop"
    /\ UNCHANGED <<params, results, sigs, mainPc, csPc, total, tags, asns,
                   allLines, stdout, summaries, file, fileWrites,
                   finishRecvs, terminated, processed, sigK>>
    /\ UNCHANGED <<freq, delay, summaryOut, writeFailed, diag>>

\* "close(params.Done)", then manageOutput returns.
CloseDone ==
    /\ Alive
    /\ moPc = "close"
    /\ doneClosed' = TRUE
    /\ doneCloses' = doneCloses + 1
    /\ moPc' = "returned"
    /\ UNCHANGED <<params, results, sigs, mainPc, csPc, total, tags, asns,
                   allLines, stdout, summaries, file, fileWrites,
                   finishRecvs, terminated, processed, sigK>>
    /\ UNCHANGED <<freq, delay, summaryOut, writeFailed, diag>>

\* ------------------------------------------------------------------------
\* Specifications
\* ------------------------------------------------------------------------

Next ==
    \/ \E e \in Requests : EngineSend(e)
    \/ EngineReturn
    \/ MainWaitDone
    \/ SigArrive
    \/ CatchSignal
    \/ CatchWaitDone
    \/ RecvResult
    \/ RecvFinishMain
    \/ RecvFinishSignal
    \/ Summary
    \/ WriteFile
    \/ CloseDone

Spec == Init /\ [][Next]_vars

\* The same program with the history of the first signal kept in sigK.
NextNoted ==
    \/ \E e \in Requests : EngineSend(e)
    \/ EngineReturn
    \/ MainWaitDone
    \/ SigArriveNoted
    \/ CatchSignal
    \/ CatchWaitDone
    \/ RecvResult
    \/ RecvFinishMain
    \/ RecvFinishSignal
    \/ Summary
    \/ WriteFile
    \/ CloseDone

NotedSpec == Init /\ [][NextNoted]_vars

\* The Go scheduler runs every goroutine that can take a step, and a select
\* with a ready finish case picks it with probability 1; the engine and the
\* operating system's signals are under no obligation.
FairSpec ==
    /\ Spec
    /\ WF_vars(MainWaitDone)
    /\ WF_vars(CatchSignal)
    /\ WF_vars(CatchWaitDone)
    /\ WF_vars(RecvFinishMain \/ RecvFinishSignal)
    /\ WF_vars(Summary)
    /\ WF_vars(WriteFile)
    /\ WF_vars(CloseDone)

\* ------------------------------------------------------------------------
\* The rate translation on its own: main, with any -freq flag, at the point
\* where it builds the AmassConfig.
\* ------------------------------------------------------------------------

FreqInit ==
    /\ params = [Verbose |-> FALSE, Sources |-> FALSE, PrintIPs |-> FALSE,
                 FileOut |-> ""]
    /\ results = <<>>
    /\ sigs = 0
    /\ mainPc = "config"
    /\ csPc = "waitSig"
    /\ moPc = "loop"
    /\ total = 0
    /\ tags = <<>>
    /\ asns = <<>>
    /\ allLines = ""
    /\ stdout = ""
    /\ summaries = 0
    /\ file = "old\n"
    /\ fileWrites = 0
    /\ doneClosed = FALSE
    /\ doneCloses = 0
    /\ finishRecvs = 0
    /\ terminated = "no"
    /\ processed = <<>>
    /\ sigK = <<>>
    /\ freq \in MinFreq..MaxFreq
    /\ delay = <<>>
    /\ summaryOut = <<>>
    /\ writeFailed = FALSE
    /\ diag = <<>>

\* "Frequency: freqToDuration(freq)" in the AmassConfig main builds.
CallFreqToDuration ==
    /\ mainPc = "config"
    /\ delay' = <<freqToDuration(freq)>>
    /\ mainPc' = "StartAmass"
    /\ UNCHANGED <<params, results, sigs, csPc, moPc, total, tags, asns,
                   allLines, stdout, summaries, file, fileWrites, doneClosed,
                   doneCloses, finishRecvs, terminated, processed, sigK,
                   freq, summaryOut, writeFailed, diag>>

FreqNext == CallFreqToDuration

FreqSpec == FreqInit /\ [][FreqNext]_vars

\* ------------------------------------------------------------------------
\* Definitions used by the properties
\* ------------------------------------------------------------------------

\* main has reached its send on finish (blocked in it, or past it).
MainFired == mainPc \in {"sendFinish", "waitDone", "returned"}

\* catchSignals has reached its send on finish (blocked in it, or past it).
SignalFired == csPc \in {"sendFinish", "waitDone", "exited"}

BothFired == MainFired /\ SignalFired

\* Running = 0, FinishRequested = 1, Flushing = 2, Terminated = 3.
Phase ==
    IF terminated # "no" THEN 3
    ELSE IF moPc # "loop" THEN 2
    ELSE IF MainFired \/ SignalFired THEN 1
    ELSE 0

\* A trigger has fired: a send on finish is issued, or a signal is waiting
\* for catchSignals to pick it up.
Triggered == MainFired \/ SignalFired \/ (csPc = "waitSig" /\ sigs > 0)

\* What the flush produces and what a finish must leave alone.
flushState == <<total, tags, asns, allLines, file, fileWrites, doneClosed,
                doneCloses, finishRecvs>>

RECURSIVE SumMap(_)
SumMap(m) ==
    IF DOMAIN m = {} THEN 0
    ELSE LET k == CHOOSE x \in DOMAIN m : TRUE
         IN  m[k] + SumMap([x \in DOMAIN m \ {k} |-> m[x]])

SourceValues == {r.Source : r \in Requests}
TagValues == {r.Tag : r \in Requests}

CountSource(s) == Cardinality({i \in 1..Len(processed) : processed[i].Source = s})
CountTag(t) == Cardinality({i \in 1..Len(processed) : processed[i].Tag = t})

\* The ISP name of the first processed event that carries ASN a.
FirstIsp(a) ==
    LET first == CHOOSE i \in 1..Len(processed) :
                    /\ processed[i].ASN = a
                    /\ \A j \in 1..(i - 1) : processed[j].ASN # a
    IN  processed[first].ISP

\* ------------------------------------------------------------------------
\* Properties
\* ------------------------------------------------------------------------

\* C1: when finish comes from main (all N events were enqueued before the
\* send was issued, none after), manageOutput has counted all N events by
\* the time it leaves its loop: total = N.
C1_DrainBeforeExit ==
    mainPc \in {"waitDone", "returned"} => total = enqueued

\* C2: a terminated process has manageOutput out of its loop, the summary
\* and the file write finished (the file holding allLines unless the write
\* failed), and done closed.
C2_NoExitBeforeFlush ==
    terminated # "no" =>
        /\ moPc = "returned"
        /\ doneClosed
        /\ (params.Verbose => summaries = 1)
        /\ (params.FileOut # "" =>
                fileWrites = 1 /\ (~writeFailed => file = allLines))

C2_Witness ==
    /\ terminated = "exit"
    /\ mainPc = "sendFinish"
    /\ fileWrites = 1
    /\ total > 0

\* C3: main and catchSignals never both have a send on finish issued.
C3_NoDoubleSend == ~(MainFired /\ SignalFired)

\* C4: the run moves through Running, FinishRequested, Flushing, Terminated
\* one phase at a time, and once a trigger has fired the process eventually
\* terminates.
C4_ShutdownCompletes ==
    /\ [][Phase' = Phase \/ Phase' = Phase + 1]_vars
    /\ (Triggered ~> terminated # "no")

C4_Witness ==
    /\ terminated # "no"
    /\ BothFired
    /\ total > 0

\* C5: the step in which the second trigger fires changes nothing of the
\* aggregate, the file or the done signal; with both triggers fired finish
\* is received once, the file written at most once and done closed at most
\* once; and after done is closed nothing of it changes any more.
C5_SecondTriggerNoOp ==
    [][ /\ (~BothFired /\ BothFired') => UNCHANGED flushState
        /\ (BothFired /\ doneClosed) => UNCHANGED flushState
        /\ BothFired' => (finishRecvs' <= 1 /\ fileWrites' <= 1 /\ doneCloses' <= 1)
      ]_vars

C5_Witness ==
    /\ BothFired
    /\ doneClosed
    /\ finishRecvs = 1
    /\ fileWrites = 1
    /\ results # <<>>

\* C6: done is closed at most once, and only after finish was received, the
\* loop left, and the summary and the file write done; finish is received
\* at most once and the file written at most once; a returned manageOutput
\* has closed done.
C6_DoneOnce ==
    /\ doneCloses <= 1
    /\ finishRecvs <= 1
    /\ fileWrites <= 1
    /\ doneClosed =>
        /\ doneCloses = 1
        /\ finishRecvs = 1
        /\ moPc = "returned"
        /\ (params.Verbose => summaries = 1)
        /\ (params.FileOut # "" => fileWrites = 1)
    /\ moPc = "returned" => doneClosed

C6_Witness ==
    /\ doneClosed
    /\ params.Verbose
    /\ params.FileOut # ""
    /\ summaries = 1
    /\ fileWrites = 1

\* C7: when the interrupt's finish is taken while the engine is still
\* running, the total equals the number of events that were enqueued when
\* the signal arrived.
C7_InterruptTotal ==
    (csPc \in {"waitDone", "exited"} /\ mainPc = "StartAmass") => sigK = <<total>>

\* C8: the Source Tally values sum to total.
C8_TallySum == SumMap(tags) = total

C8_Witness ==
    /\ total >= 2
    /\ Cardinality(DOMAIN tags) = 2

\* C9 as stated: the tally entry for s is the number of processed events
\* whose Source (the value of the "[source] " prefix) is s.
C9_TallyBySource ==
    \A s \in SourceValues \cup DOMAIN tags : MapGet(tags, s) = CountSource(s)

\* C9 as amended: the tally entry for t is the number of processed events
\* whose Tag is t; the tally has no other entries.
C9_TallyByTag ==
    /\ DOMAIN tags \subseteq TagValues
    /\ \A t \in TagValues : MapGet(tags, t) = CountTag(t)

C9_Witness ==
    /\ total >= 2
    /\ \E i \in 1..Len(processed) : processed[i].Tag # processed[i].Source
    /\ \E t \in DOMAIN tags : tags[t] = 2

\* C10: every ASN in the registry carries the ISP name of the first
\* processed event with that ASN.
C10_FirstIspWins ==
    \A a \in DOMAIN asns : asns[a].Name = FirstIsp(a)

C10_Witness ==
    \E i, j \in 1..Len(processed) :
        /\ i < j
        /\ processed[i].ASN = processed[j].ASN
        /\ processed[i].ISP # processed[j].ISP
        /\ asns[processed[i].ASN].Name = processed[i].ISP

\* Number of events in seq that carry ASN a and netblock n.
CountPair(seq, a, n) ==
    Cardinality({i \in 1..Len(seq) : seq[i].ASN = a /\ seq[i].Netblock = n})

\* asns[a].Netblocks[n] in registry reg, 0 where there is no such entry.
NetblockCount(reg, a, n) ==
    IF a \in DOMAIN reg THEN MapGet(reg[a].Netblocks, n) ELSE 0

AsnValues == {r.ASN : r \in Requests}
NetblockValues == {r.Netblock : r \in Requests}

\* The formatted lines of the events of seq, concatenated in order.
RECURSIVE LinesOf(_, _)
LinesOf(p, seq) ==
    IF seq = <<>> THEN "" ELSE FormatLine(p, Head(seq)) \o LinesOf(p, Tail(seq))

\* Sum of the netblock counts of all ASNs of registry reg.
RECURSIVE SumNetblocks(_)
SumNetblocks(reg) ==
    IF DOMAIN reg = {} THEN 0
    ELSE LET a == CHOOSE x \in DOMAIN reg : TRUE
         IN  SumMap(reg[a].Netblocks)
             + SumNetblocks([x \in DOMAIN reg \ {a} |-> reg[x]])

\* C11: no netblock count ever decreases, and none exceeds the number of
\* processed events that carry its (ASN, netblock) pair.
C11_NetblockCounts ==
    /\ [](\A a \in AsnValues \cup DOMAIN asns : \A n \in NetblockValues :
            NetblockCount(asns, a, n) <= CountPair(processed, a, n))
    /\ [][\A a \in AsnValues \cup DOMAIN asns : \A n \in NetblockValues :
            NetblockCount(asns', a, n) >= NetblockCount(asns, a, n)]_vars

C11_Witness ==
    /\ NetblockCount(asns, 100, "n1") = 2
    /\ NetblockCount(asns, 100, "n2") = 1

\* C12: after a successful write at a finish that came from main (so that
\* every event was delivered before it), the file holds the formatted lines
\* of all delivered events, in delivery order.
C12_FileHoldsAllDelivered ==
    (fileWrites = 1 /\ ~writeFailed /\ mainPc \in {"waitDone", "returned"})
        => file = LinesOf(params, processed \o results)

\* C14: a failed write of the output file has been reported to the operator
\* by the time manageOutput goes on to close done.
C14_WriteFailureReported ==
    (writeFailed /\ moPc \in {"close", "returned"}) => diag # <<>>

\* C15: once finish has been received, total, the Source Tally, the ASN
\* Registry and the Accumulated Output never change again.
C15_FrozenAtFinish ==
    [][finishRecvs >= 1 => UNCHANGED aggregate]_vars

C15_Witness ==
    /\ finishRecvs = 1
    /\ moPc = "returned"
    /\ mainPc = "StartAmass"
    /\ results # <<>>
    /\ total > 0

\* C17: between loop iterations the interactive stream holds exactly the
\* Accumulated Output, which is the formatted lines of the events counted
\* in total, one per event, in order.
C17_RealTimeEmission ==
    moPc = "loop" =>
        /\ stdout = allLines
        /\ allLines = LinesOf(params, processed)
        /\ Len(processed) = total

C17_Witness ==
    /\ moPc = "loop"
    /\ total >= 2
    /\ params.Sources
    /\ params.PrintIPs
    /\ results # <<>>

\* C18: the ASN Registry has one entry for each ASN among the processed
\* events and no other, and all netblock counts together sum to total.
C18_RegistryTotals ==
    /\ DOMAIN asns = {processed[i].ASN : i \in 1..Len(processed)}
    /\ SumNetblocks(asns) = total

C18_Witness ==
    /\ Cardinality(DOMAIN asns) = 2
    /\ total >= 3
    /\ \E a \in DOMAIN asns : Cardinality(DOMAIN asns[a].Netblocks) = 2

\* The policy of the rate translation, in milliseconds: 0 selects the
\* engine default; below 60 the delay is 60 div f seconds; from 60 on, with
\* r = f div 60, it is 1000 div r milliseconds when r < 1000 and that
\* quotient is above 1, and the engine default otherwise.
PolicyDelay(f) ==
    CASE f = 0 -> <<"default">>
      [] f >= 1 /\ f < 60 -> <<"ms", 1000 * (60 \div f)>>
      [] f >= 60 ->
            LET r == f \div 60
            IN  IF r < 1000 /\ (1000 \div r) > 1
                THEN <<"ms", 1000 \div r>>
                ELSE <<"default">>

\* The milliseconds of a computed delay.
Ms(d) == d[2]

\* C13: for every frequency from 0 up, freqToDuration returns what the
\* policy gives; 30 per minute gives 2 s and 120 per minute gives 500 ms.
C13_FollowsPolicy ==
    (mainPc = "StartAmass" /\ freq >= 0) =>
        /\ delay = <<PolicyDelay(freq)>>
        /\ freq = 30 => delay = <<Duration(2 * Second)>>
        /\ freq = 120 => delay = <<Duration(500 * Millisecond)>>

C13_Witness ==
    /\ mainPc = "StartAmass"
    /\ freq = 120
    /\ delay = <<Duration(500 * Millisecond)>>

\* C19: the result is the engine default or a computed delay of at least
\* 2 ms; every frequency <= 0 and every frequency >= 30060 gives the engine
\* default.
C19_NoTinyDelay ==
    mainPc = "StartAmass" =>
        /\ \/ delay = <<DefaultFrequency>>
           \/ delay[1][1] = "ms" /\ Ms(delay[1]) >= 2 * Millisecond
        /\ (freq <= 0 \/ freq >= 30060) => delay = <<DefaultFrequency>>

C19_Witness ==
    /\ mainPc = "StartAmass"
    /\ freq = 30060
    /\ delay = <<DefaultFrequency>>

\* C20: for a frequency f2 in 1..30059, no lower frequency f1 >= 1 (within
\* MonoWindow of f2; adjacent frequencies chain to every pair) has a
\* shorter delay than f2.
C20_Monotone ==
    (mainPc = "StartAmass" /\ freq >= 1 /\ freq <= 30059) =>
        \A f1 \in 1..freq :
            f1 >= freq - MonoWindow =>
                Ms(freqToDuration(f1)) >= Ms(delay[1])

C20_Witness ==
    /\ mainPc = "StartAmass"
    /\ freq = 60
    /\ delay = <<Duration(1000 * Millisecond)>>
    /\ freqToDuration(59) = Duration(1 * Second)

\* Index in summaryOut of the Println("") that ends the tag list.
TagListEnd ==
    CHOOSE k \in 2..Len(summaryOut) :
        /\ summaryOut[k] = "\n"
        /\ \A j \in 2..(k - 1) : summaryOut[j] # "\n"

\* What printSummary printed between the "names discovered - " header and
\* the end of that line.
TagList == SubSeq(summaryOut, 2, TagListEnd - 1)

\* C16: for a tally of n >= 1 entries the tag list holds n "tag: count"
\* items and n - 1 separators ", ", each separator between two items and
\* none after the last item.
C16_CommaSeparated ==
    (summaryOut # <<>> /\ DOMAIN tags # {}) =>
        LET n == Cardinality(DOMAIN tags)
        IN  /\ Cardinality({i \in DOMAIN TagList : TagList[i] # ", "}) = n
            /\ Cardinality({i \in DOMAIN TagList : TagList[i] = ", "}) = n - 1
            /\ \A i \in DOMAIN TagList :
                 TagList[i] = ", " =>
                    /\ i > 1 /\ i < Len(TagList)
                    /\ TagList[i - 1] # ", " /\ TagList[i + 1] # ", "

====
